---- MODULE Spec2Model ----
(***************************************************************************)
(* AHA Studio: the App component (upload, caption generation, translation, *)
(* dubbing, export, cancel), the video renderer renderVideoWithCaptions    *)
(* with its frame loop and capture session, and the "caption active at t"  *)
(* lookups of the renderer, VideoPlayer and CaptionEditor.                 *)
(*                                                                         *)
(* JavaScript runs one task at a time: an action below is one task (a user *)
(* event, a media event, a frame callback, the settling of a remote call)  *)
(* together with the promise continuations it makes runnable.              *)
(***************************************************************************)
EXTENDS Integers, Sequences, FiniteSets, TLC

\* ------------------------------------------------------------------ bounds
MaxOps == 3          \* operations started in one run
MaxUploads == 1      \* files uploaded in one run
VideoDuration == 2   \* length of the source video, in playback steps
MaxCaps == 2         \* captions of a sequence given to the lookup
MaxTime == 2         \* largest caption bound / playback time of the lookup
MaxNow == 0          \* largest reading of Date.now()
MaxWords == 3        \* most words text.split(' ') gives for a drawn caption
MaxWordWidth == 3    \* widest rendered word
MaxSpaceWidth == 1   \* widest rendered ' '
MaxSurface == 5      \* widest drawing surface
SampleBits == 3      \* a sample is a multiple of 2^-SampleBits
MaxChannels == 2     \* most channels of a decoded buffer
MaxFrames == 46      \* longest decoded buffer, in frames
MaxSeed == 2         \* the decoded buffers tried per shape
MaxPcmBytes == 4     \* longest raw PCM answer, in bytes
MaxChunks == 2       \* most dataavailable events of one recorder

\* ------------------------------------------------------------------ state
VARIABLES
  videoSrc,            \* App: object URL of the uploaded file, or null
  videoFile,           \* App: the uploaded file, or null
  captions,            \* App: the caption store
  status,              \* App: ProcessingStatus
  errorMsg,            \* App: NoMsg or a message
  renderingProgress,   \* App: last progress reported by the renderer
  dubbedAudioBlob,     \* App: the dub artifact, or null
  dubbedAudioUrl,      \* App: its object URL, or null
  useDubbing,          \* App: the dub option of the export
  abortControllerRef,  \* App: the operation whose controller the ref holds, or null
  revoked,             \* App: the object URLs given to URL.revokeObjectURL
  ops,                 \* the operations under way: handler position, controller, render
  last,                \* the task that ran last: its operation, how the task left
                       \* it, and what the task put out
  lkCaptions,          \* lookup: the caption sequence
  lkTime,              \* lookup: the playback time
  lkRenderer,          \* lookup: the caption drawFrame burns in (none: << >>)
  lkPlayer,            \* lookup: VideoPlayer's activeCaption
  lkEditor,            \* lookup: the places of the captions CaptionEditor highlights
  lkDone,              \* lookup: the components that have run
  words,               \* word wrap: the rendered width of each word of the text
  spaceWidth,          \* word wrap: the rendered width of ' '
  w,                   \* word wrap: the width of the drawing surface
  lines,               \* word wrap: the lines produced, each the words it holds
  srtContent,          \* the subtitle file handed to the user: its blocks, or null
  wavIn,               \* audioUtils: the argument of the function applied
  wavOut               \* audioUtils: what it wrote, or null

appVars == <<videoSrc, videoFile, captions, status, errorMsg, renderingProgress,
             dubbedAudioBlob, dubbedAudioUrl, useDubbing, abortControllerRef,
             revoked, ops, last>>
lkVars == <<lkCaptions, lkTime, lkRenderer, lkPlayer, lkEditor, lkDone>>
wrapVars == <<words, spaceWidth, w, lines>>
fileVars == <<srtContent, wavIn, wavOut>>
vars == <<appVars, lkVars, wrapVars, fileVars>>

\* null for a URL, a file, a blob or a message: each of these is a non-empty tuple
null == << >>
\* abortControllerRef.current = null; controllers are named by their operation 1, 2, ..
noController == 0

\* ProcessingStatus filters of App
isProcessing == status \in {"EXTRACTING_AUDIO", "TRANSCRIBING", "TRANSLATING",
                            "GENERATING_SPEECH"}
isRendering == status = "RENDERING"
\* the processing overlay covers the page and is the only place of the Stop button
overlayShown == isRendering \/ isProcessing

\* ------------------------------------------------------- values and errors
Err(name, message) == [name |-> name, message |-> message]
AbortError == Err("AbortError", "Aborted")
Ok(v) == [ok |-> TRUE, value |-> v]
Throw(e) == [ok |-> FALSE, err |-> e]

Raw(s, e, t) == [start |-> s, end |-> e, text |-> t]

\* what the remote model can answer to a transcription request
TranscribeResponses ==
  { [kind |-> "reject", err |-> Err("ApiError", "quota exceeded")],
    [kind |-> "empty"], [kind |-> "garbage"],
    [kind |-> "json", value |-> << >>],
    [kind |-> "json", value |-> <<Raw(0, 2, "a")>>],
    [kind |-> "json", value |-> <<Raw(0, 2, "a"), Raw(2, 4, "b")>>] }

\* a field that a parsed element does not have reads as undefined
undefined == "(undefined)"

\* answers that are not the expected array: no text, text that is no JSON, JSON
\* that is no array, an array whose element has no text field
MalformedResponses ==
  { [kind |-> "empty"], [kind |-> "garbage"], [kind |-> "nonarray"],
    [kind |-> "json", value |-> <<Raw(0, 2, undefined)>>] }

\* what it can answer to a translation request
TranslateResponses ==
  { [kind |-> "reject", err |-> Err("ApiError", "quota exceeded")],
    [kind |-> "empty"],
    [kind |-> "json", value |-> <<Raw(0, 2, "x")>>],
    [kind |-> "json", value |-> <<Raw(0, 2, "x"), Raw(2, 4, "y")>>] }

\* what it can answer to a speech request
SpeechResponses ==
  { [kind |-> "reject", err |-> Err("ApiError", "quota exceeded")],
    [kind |-> "empty"], [kind |-> "audio"] }

\* how extractAudioFromVideo settles: the base64 text, a decode error, or the
\* FileReader's error event (an object with neither name nor message)
ExtractResults ==
  { Ok("base64"), Throw(Err("EncodingError", "Unable to decode audio data")),
    Throw(Err("", "")) }

\* the texts typed into a caption's textarea
EditTexts == {"e"}

\* ------------------------------------------------------------- operations
\* One record per call of a handler: kind and pc give the handler and the await
\* it is suspended at, aborted is controller.signal.aborted, outcome is how the
\* handler ended. file is the video file loaded when the handler was called,
\* input is the captions the handler closed over. The remaining
\* fields are the renderer's: whether the videoSrc argument can be loaded, the
\* audio argument, the node connected to the mixing destination, the
\* MediaRecorder state, the calls of mediaRecorder.stop(), whether video, canvas
\* and audio context were released, the video element's paused, ended and
\* currentTime, the chunks array of the recorder's handlers, and the data of
\* every dataavailable event so far.
NewOp(kind, pc) ==
  [kind |-> kind, pc |-> pc, aborted |-> FALSE, outcome |-> "pending",
   input |-> << >>, srcLive |-> TRUE, audio |-> null, route |-> "none", rec |-> "none",
   stops |-> 0, released |-> FALSE, paused |-> TRUE, ended |-> FALSE, pos |-> 0,
   chunks |-> << >>, delivered |-> << >>, file |-> videoFile]

\* a handler that has returned, with nothing of its render left to run
DoneOp == [NewOp("done", "done") EXCEPT !.outcome = "settled", !.file = null]

Finished(r, outcome) == [r EXCEPT !.pc = "done", !.outcome = outcome]

InFlight(o) == ops[o].outcome = "pending"

\* operations and their controllers are named by their place in ops
HasFree == Len(ops) < MaxOps
Free == Len(ops) + 1

\* a render whose promise is settled and that has no event left to come
Quiescent(r) == r.outcome # "pending" /\ r.pc \in {"halted", "done"} /\ r.rec # "stopping"

Retire(r) == IF Quiescent(r) THEN DoneOp ELSE r

\* the task act of operation o, which it leaves as r; download: a file was
\* handed to the user; progress: onProgress was called; dub: there was a dub
\* artifact when the task began; dubbed, route, stops, released, delivered: of
\* the render; blob: the chunks of the blob handed to the user
Task(act, o, r, download, progress) ==
  [act |-> act, op |-> o, kind |-> r.kind, aborted |-> r.aborted,
   outcome |-> r.outcome, rec |-> r.rec, download |-> download,
   progress |-> progress, dub |-> dubbedAudioBlob # null,
   dubbed |-> r.audio # null, route |-> r.route, stops |-> r.stops,
   released |-> r.released, delivered |-> r.delivered,
   blob |-> IF download THEN r.chunks ELSE << >>]

\* a user command that belongs to no operation
Command(act) == Task(act, 0, DoneOp, FALSE, FALSE)

UserCommands == {"handleFileUpload", "handleStopProcessing", "handleGenerateCaptions",
                 "handleTranslate", "handleDubbing", "handleExportVideo",
                 "toggleUseDubbing", "updateCaption"}

\* ---------------------------------------------------------- geminiService
\* an identifier without the index
capIdNoIndex(index, now) == <<"cap", 0, now>>

\* `cap-${index}-${Date.now()}`
capId(index, now) == <<"cap", index, now>>

\* `trans-${i}`
transId(i) == <<"trans", i>>

\* transcribeAudio from the point where the remote call settles with resp;
\* t is the reading of Date.now()
transcribeAudio(resp, aborted, t) ==
  IF resp.kind = "reject" THEN Throw(resp.err)
  ELSE IF aborted THEN Throw(AbortError)
  ELSE IF resp.kind = "empty" THEN Throw(Err("Error", "No response from AI"))
  ELSE IF resp.kind = "garbage" THEN Throw(Err("SyntaxError", "Unexpected token"))
  ELSE IF resp.kind = "nonarray"
  THEN Throw(Err("TypeError", "rawCaptions.map is not a function"))
  ELSE Ok([i \in 1..Len(resp.value) |->
             [id |-> capId(i - 1, t), start |-> resp.value[i].start,
              end |-> resp.value[i].end, text |-> resp.value[i].text]])

\* translateCaptions from the point where the remote call settles with resp
translateCaptions(caps, resp, aborted) ==
  IF resp.kind = "reject" THEN Throw(resp.err)
  ELSE IF aborted THEN Throw(AbortError)
  ELSE IF resp.kind = "empty" THEN Throw(Err("Error", "No translation response"))
  ELSE IF resp.kind = "garbage" THEN Throw(Err("SyntaxError", "Unexpected token"))
  ELSE Ok([i \in 1..Len(resp.value) |->
             [id |-> IF i <= Len(caps) THEN caps[i].id ELSE transId(i - 1),
              start |-> resp.value[i].start, end |-> resp.value[i].end,
              text |-> resp.value[i].text]])

\* generateSpeech from the point where the remote call settles with resp
generateSpeech(resp, aborted) ==
  IF resp.kind = "reject" THEN Throw(resp.err)
  ELSE IF aborted THEN Throw(AbortError)
  ELSE IF resp.kind = "empty" THEN Throw(Err("Error", "No audio generated"))
  ELSE Ok("base64")

\* no caption has been handed to drawCaptionOnCanvas
NoCaptionDrawn == words = << >> /\ spaceWidth = 0 /\ w = 0 /\ lines = << >>

\* no file has been written
NoFile == srtContent = null /\ wavIn = null /\ wavOut = null

\* ------------------------------------------------------------ App handlers
Init ==
  /\ videoSrc = null /\ videoFile = null /\ captions = << >>
  /\ status = "IDLE" /\ errorMsg = null /\ renderingProgress = 0
  /\ dubbedAudioBlob = null /\ dubbedAudioUrl = null /\ useDubbing = FALSE
  /\ abortControllerRef = noController /\ revoked = {}
  /\ ops = << >> /\ last = Command("construct")
  /\ lkCaptions = << >> /\ lkTime = 0
  /\ lkRenderer = << >> /\ lkPlayer = null /\ lkEditor = {} /\ lkDone = {}
  /\ NoCaptionDrawn /\ NoFile

\* The cleanup of the effect on [dubbedAudioUrl, videoSrc]: when a step changes
\* one of the two, React runs the cleanup the previous render registered, which
\* revokes both values that render closed over
EffectCleanup ==
  IF <<dubbedAudioUrl', videoSrc'>> # <<dubbedAudioUrl, videoSrc>>
  THEN {u \in {dubbedAudioUrl, videoSrc} : u # null}
  ELSE {}

\* the file input sits under the processing overlay while it is shown
handleFileUpload(n) ==
  /\ ~overlayShown
  /\ videoFile = IF n = 1 THEN null ELSE <<"file", n - 1>>
  /\ videoSrc' = <<"video", n>>
  /\ videoFile' = <<"file", n>>
  /\ captions' = << >>
  /\ status' = "IDLE"
  /\ errorMsg' = null
  /\ dubbedAudioBlob' = null
  /\ dubbedAudioUrl' = null
  /\ useDubbing' = FALSE
  /\ revoked' = revoked \cup {u \in {videoSrc} : u # null} \cup EffectCleanup
  /\ last' = Command("handleFileUpload")
  /\ UNCHANGED <<renderingProgress, abortControllerRef, ops, lkVars, wrapVars, fileVars>>

\* the Stop button is part of the processing overlay
handleStopProcessing ==
  /\ overlayShown
  /\ ops' = IF abortControllerRef # noController /\ ops[abortControllerRef].kind # "done"
            THEN [ops EXCEPT ![abortControllerRef].aborted = TRUE]
            ELSE ops
  /\ status' = "IDLE"
  /\ last' = Task("handleStopProcessing", abortControllerRef,
                  IF abortControllerRef # noController THEN ops'[abortControllerRef]
                  ELSE DoneOp, FALSE, FALSE)
  /\ UNCHANGED <<videoSrc, videoFile, captions, errorMsg, renderingProgress,
                 dubbedAudioBlob, dubbedAudioUrl, useDubbing, abortControllerRef,
                 revoked, lkVars, wrapVars, fileVars>>

\* a signal that never reads as aborted
signalAbortedNever(o) == FALSE

\* controller.signal.aborted of operation o, as its handler and the service
\* it awaits read it
signalAborted(o) == ops[o].aborted

\* the catch block shared by handleGenerateCaptions, handleTranslate and
\* handleDubbing: TRUE when the error is surfaced
Surfaced(err, aborted) == ~(err.name = "AbortError" \/ aborted)

\* a handler of App ends: its operation is retired, the task is recorded
Ends(act, o, outcome) ==
  /\ ops' = [ops EXCEPT ![o] = DoneOp]
  /\ last' = Task(act, o, Finished(ops[o], outcome), FALSE, FALSE)

handleGenerateCaptions ==
  /\ videoFile # null /\ ~isProcessing /\ ~isRendering
  /\ HasFree
  /\ ops' = Append(ops, NewOp("generate", "extract"))
  /\ abortControllerRef' = Free
  /\ errorMsg' = null
  /\ status' = "EXTRACTING_AUDIO"
  /\ last' = Task("handleGenerateCaptions", Free, ops'[Free], FALSE, FALSE)
  /\ UNCHANGED <<videoSrc, videoFile, captions, renderingProgress, dubbedAudioBlob,
                 dubbedAudioUrl, useDubbing, revoked, lkVars, wrapVars, fileVars>>

\* handleGenerateCaptions resumes after await extractAudioFromVideo
GenerateExtracted(o, res) ==
  /\ ops[o].kind = "generate" /\ ops[o].pc = "extract"
  /\ IF res.ok
     THEN IF signalAborted(o)
          THEN /\ Ends("GenerateExtracted", o, "cancelled")
               /\ UNCHANGED <<status, errorMsg>>
          ELSE /\ ops' = [ops EXCEPT ![o].pc = "transcribe"]
               /\ last' = Task("GenerateExtracted", o, ops'[o], FALSE, FALSE)
               /\ status' = "TRANSCRIBING"
               /\ UNCHANGED errorMsg
     ELSE IF Surfaced(res.err, signalAborted(o))
          THEN /\ Ends("GenerateExtracted", o, "failed")
               /\ status' = "ERROR"
               /\ errorMsg' = IF res.err.message # "" THEN <<res.err.message>>
                              ELSE <<"An unknown error occurred.">>
          ELSE /\ Ends("GenerateExtracted", o, "cancelled")
               /\ UNCHANGED <<status, errorMsg>>
  /\ UNCHANGED <<videoSrc, videoFile, captions, renderingProgress, dubbedAudioBlob,
                 dubbedAudioUrl, useDubbing, abortControllerRef, revoked, lkVars, wrapVars, fileVars>>

\* handleGenerateCaptions resumes after await transcribeAudio
GenerateTranscribed(o, resp, t) ==
  /\ ops[o].kind = "generate" /\ ops[o].pc = "transcribe"
  /\ LET got == transcribeAudio(resp, signalAborted(o), t) IN
     IF got.ok
     THEN IF signalAborted(o)
          THEN /\ Ends("GenerateTranscribed", o, "cancelled")
               /\ UNCHANGED <<captions, status, errorMsg>>
          ELSE /\ Ends("GenerateTranscribed", o, "committed")
               /\ captions' = got.value
               /\ status' = "COMPLETED"
               /\ UNCHANGED errorMsg
     ELSE IF Surfaced(got.err, signalAborted(o))
          THEN /\ Ends("GenerateTranscribed", o, "failed")
               /\ status' = "ERROR"
               /\ errorMsg' = IF got.err.message # "" THEN <<got.err.message>>
                              ELSE <<"An unknown error occurred.">>
               /\ UNCHANGED captions
          ELSE /\ Ends("GenerateTranscribed", o, "cancelled")
               /\ UNCHANGED <<captions, status, errorMsg>>
  /\ UNCHANGED <<videoSrc, videoFile, renderingProgress, dubbedAudioBlob,
                 dubbedAudioUrl, useDubbing, abortControllerRef, revoked, lkVars, wrapVars, fileVars>>

\* a commit that keeps the dub
DubKept == UNCHANGED <<dubbedAudioBlob, dubbedAudioUrl, useDubbing>>

\* a commit that discards the blob alone
InvalidateBlobOnly ==
  /\ dubbedAudioBlob' = null
  /\ UNCHANGED <<dubbedAudioUrl, useDubbing>>

\* setDubbedAudioBlob(null); setDubbedAudioUrl(null); setUseDubbing(false)
InvalidateDub ==
  /\ dubbedAudioBlob' = null
  /\ dubbedAudioUrl' = null
  /\ useDubbing' = FALSE

handleTranslate ==
  /\ captions # << >> /\ ~isProcessing /\ ~isRendering
  /\ HasFree
  /\ ops' = Append(ops, [NewOp("translate", "translate") EXCEPT !.input = captions])
  /\ abortControllerRef' = Free
  /\ status' = "TRANSLATING"
  /\ last' = Task("handleTranslate", Free, ops'[Free], FALSE, FALSE)
  /\ UNCHANGED <<videoSrc, videoFile, captions, errorMsg, renderingProgress,
                 dubbedAudioBlob, dubbedAudioUrl, useDubbing, revoked, lkVars, wrapVars, fileVars>>

\* handleTranslate resumes after await translateCaptions
TranslateSettled(o, resp) ==
  /\ ops[o].kind = "translate" /\ ops[o].pc = "translate"
  /\ LET got == translateCaptions(ops[o].input, resp, signalAborted(o)) IN
     IF got.ok
     THEN IF signalAborted(o)
          THEN /\ Ends("TranslateSettled", o, "cancelled")
               /\ UNCHANGED <<captions, dubbedAudioBlob, dubbedAudioUrl, useDubbing,
                              status, errorMsg>>
          ELSE /\ Ends("TranslateSettled", o, "committed")
               /\ captions' = got.value
               /\ InvalidateDub
               /\ status' = "COMPLETED"
               /\ UNCHANGED errorMsg
     ELSE IF Surfaced(got.err, signalAborted(o))
          THEN /\ Ends("TranslateSettled", o, "failed")
               /\ status' = "ERROR"
               /\ errorMsg' = <<"Translation failed: ", got.err.message>>
               /\ UNCHANGED <<captions, dubbedAudioBlob, dubbedAudioUrl, useDubbing>>
          ELSE /\ Ends("TranslateSettled", o, "cancelled")
               /\ UNCHANGED <<captions, dubbedAudioBlob, dubbedAudioUrl, useDubbing,
                              status, errorMsg>>
  /\ UNCHANGED <<videoSrc, videoFile, renderingProgress, abortControllerRef, lkVars, wrapVars, fileVars>>
  /\ revoked' = revoked \cup EffectCleanup

handleDubbing ==
  /\ captions # << >> /\ ~isProcessing /\ ~isRendering
  /\ HasFree
  /\ ops' = Append(ops, NewOp("dubbing", "speech"))
  /\ abortControllerRef' = Free
  /\ status' = "GENERATING_SPEECH"
  /\ errorMsg' = null
  /\ last' = Task("handleDubbing", Free, ops'[Free], FALSE, FALSE)
  /\ UNCHANGED <<videoSrc, videoFile, captions, renderingProgress, dubbedAudioBlob,
                 dubbedAudioUrl, useDubbing, revoked, lkVars, wrapVars, fileVars>>

\* handleDubbing resumes after await generateSpeech
DubbingSettled(o, resp) ==
  /\ ops[o].kind = "dubbing" /\ ops[o].pc = "speech"
  /\ LET got == generateSpeech(resp, signalAborted(o)) IN
     IF got.ok
     THEN IF signalAborted(o)
          THEN /\ Ends("DubbingSettled", o, "cancelled")
               /\ UNCHANGED <<dubbedAudioBlob, dubbedAudioUrl, useDubbing,
                              status, errorMsg>>
          ELSE /\ Ends("DubbingSettled", o, "committed")
               /\ dubbedAudioBlob' = <<"blob", o>>
               /\ dubbedAudioUrl' = <<"dub", o>>
               /\ useDubbing' = TRUE
               /\ status' = "COMPLETED"
               /\ UNCHANGED errorMsg
     ELSE IF Surfaced(got.err, signalAborted(o))
          THEN /\ Ends("DubbingSettled", o, "failed")
               /\ status' = "ERROR"
               /\ errorMsg' = <<"Dubbing failed: ", got.err.message>>
               /\ UNCHANGED <<dubbedAudioBlob, dubbedAudioUrl, useDubbing>>
          ELSE /\ Ends("DubbingSettled", o, "cancelled")
               /\ UNCHANGED <<dubbedAudioBlob, dubbedAudioUrl, useDubbing,
                              status, errorMsg>>
  /\ UNCHANGED <<videoSrc, videoFile, captions, renderingProgress,
                 abortControllerRef, lkVars, wrapVars, fileVars>>
  /\ revoked' = revoked \cup EffectCleanup

\* the dub checkbox: setUseDubbing(e.target.checked)
toggleUseDubbing ==
  /\ dubbedAudioBlob # null /\ ~isProcessing /\ ~isRendering
  /\ useDubbing' = ~useDubbing
  /\ last' = Command("toggleUseDubbing")
  /\ UNCHANGED <<videoSrc, videoFile, captions, status, errorMsg, renderingProgress,
                 dubbedAudioBlob, dubbedAudioUrl, abortControllerRef, ops, revoked, lkVars, wrapVars, fileVars>>

\* an edit that also discards the dub, as a translation does
updateCaptionDropsDub(id, newText) ==
  /\ ~overlayShown
  /\ \E i \in 1..Len(captions) : captions[i].id = id
  /\ captions' = [i \in 1..Len(captions) |->
                    IF captions[i].id = id THEN [captions[i] EXCEPT !.text = newText]
                    ELSE captions[i]]
  /\ InvalidateDub
  /\ last' = Command("updateCaption")
  /\ UNCHANGED <<videoSrc, videoFile, status, errorMsg, renderingProgress,
                 abortControllerRef, ops, revoked, lkVars, wrapVars, fileVars>>

\* the caption textarea of CaptionEditor, also under the overlay while it is shown
updateCaption(id, newText) ==
  /\ ~overlayShown
  /\ \E i \in 1..Len(captions) : captions[i].id = id
  /\ captions' = [i \in 1..Len(captions) |->
                    IF captions[i].id = id THEN [captions[i] EXCEPT !.text = newText]
                    ELSE captions[i]]
  /\ last' = Command("updateCaption")
  /\ UNCHANGED <<videoSrc, videoFile, status, errorMsg, renderingProgress,
                 dubbedAudioBlob, dubbedAudioUrl, useDubbing, abortControllerRef,
                 ops, revoked, lkVars, wrapVars, fileVars>>

\* ------------------------------------------------------------ export render
\* handleExportVideo resumes after await renderVideoWithCaptions, which
\* resolved with a blob (Ok) or rejected (Throw): try tail, catch, finally
ExportResumed(v) ==
  /\ status' = IF v.ok THEN "COMPLETED"
               ELSE IF v.err.name = "AbortError" THEN "IDLE" ELSE "ERROR"
  /\ errorMsg' = IF ~v.ok /\ v.err.name # "AbortError"
                 THEN <<"Render error: ", v.err.message>> ELSE errorMsg
  /\ renderingProgress' = 0
  /\ abortControllerRef' = noController

\* how the promise of renderVideoWithCaptions is settled by resolve/reject v
SettledAs(v) ==
  IF v.ok THEN "committed" ELSE IF v.err.name = "AbortError" THEN "cancelled" ELSE "failed"

\* One task act of render o: its record becomes r, onProgress(currentTime /
\* duration) is called when progress holds, and resolve/reject are called with
\* settles, in order. Only the first settlement of a promise counts, and it
\* resumes handleExportVideo, which hands the blob to the user when there is
\* one. renderingProgress holds the numerator currentTime.
RenderTask(act, o, r, progress, settles) ==
  /\ IF settles # << >> /\ r.outcome = "pending"
     THEN LET done == [r EXCEPT !.outcome = SettledAs(settles[1])] IN
          /\ ops' = [i \in DOMAIN ops \cup {o} |-> IF i = o THEN Retire(done) ELSE ops[i]]
          /\ last' = Task(act, o, done, settles[1].ok, progress)
          /\ ExportResumed(settles[1])
     ELSE /\ ops' = [i \in DOMAIN ops \cup {o} |-> IF i = o THEN Retire(r) ELSE ops[i]]
          /\ last' = Task(act, o, r, FALSE, progress)
          /\ renderingProgress' = IF progress THEN r.pos ELSE renderingProgress
          /\ UNCHANGED <<status, errorMsg, abortControllerRef>>
  /\ UNCHANGED <<videoSrc, videoFile, captions, dubbedAudioBlob, dubbedAudioUrl,
                 useDubbing, revoked, lkVars, wrapVars, fileVars>>

\* ctxOk: canvas.getContext('2d') gave a context; without, the promise is
\* rejected before any handler is installed
handleExportVideo(ctxOk) ==
  /\ videoSrc # null /\ captions # << >> /\ ~isRendering /\ ~isProcessing
  /\ HasFree
  /\ LET o == Free
         r == [NewOp("export", "loading") EXCEPT
                 !.srcLive = videoSrc \notin revoked,
                 !.audio = IF useDubbing THEN dubbedAudioBlob ELSE null]
     IN IF ctxOk
        THEN /\ ops' = Append(ops, r)
             /\ last' = Task("handleExportVideo", o, r, FALSE, FALSE)
             /\ status' = "RENDERING"
             /\ renderingProgress' = 0
             /\ abortControllerRef' = o
             /\ UNCHANGED <<errorMsg, videoSrc, videoFile, captions, dubbedAudioBlob,
                            dubbedAudioUrl, useDubbing, revoked, lkVars, wrapVars, fileVars>>
        ELSE RenderTask("handleExportVideo", o, [r EXCEPT !.pc = "halted"], FALSE,
                        <<Throw(Err("Error", "Could not create canvas context"))>>)

\* drawFrame on render record r: the record after the callback, whether it
\* rejected with AbortError, whether it called onProgress
drawFrame(r) ==
  IF r.aborted
  THEN [op |-> [r EXCEPT !.rec = "stopping", !.stops = @ + 1, !.paused = TRUE,
                         !.pc = "halted"],
        reject |-> TRUE, progress |-> FALSE]
  ELSE IF r.paused \/ r.ended
  THEN [op |-> [r EXCEPT !.rec = IF r.ended THEN "stopping" ELSE @,
                         !.stops = IF r.ended THEN @ + 1 ELSE @, !.pc = "halted"],
        reject |-> FALSE, progress |-> FALSE]
  ELSE [op |-> [r EXCEPT !.pc = "frames"], reject |-> FALSE, progress |-> TRUE]

\* onloadedmetadata from "4. Setup MediaRecorder" on: start the recorder, play
\* (refused when ~playOk), first drawFrame call
StartRecording(act, o, r, playOk) ==
  LET d == drawFrame([r EXCEPT !.rec = "recording", !.paused = ~playOk]) IN
  RenderTask(act, o, d.op, d.progress,
             (IF d.reject THEN <<Throw(AbortError)>> ELSE << >>) \o
             (IF playOk THEN << >>
              ELSE <<Throw(Err("NotAllowedError", "play() refused"))>>))

\* an audio setup that connects the other node
audioSetupSwapped(audio, ok) ==
  IF ~ok THEN "none" ELSE IF audio # null THEN "video" ELSE "dub"

\* an audio setup that falls back to the video's own audio
audioSetupFallsBack(audio, ok) == IF ok /\ audio # null THEN "dub" ELSE "video"

\* The audio setup of onloadedmetadata: the node it connects to the mixing
\* destination, the buffer source of the decoded blob or the media element
\* source of the video; none when the setup threw (~ok), which the catch logs
audioSetup(audio, ok) ==
  IF ~ok THEN "none" ELSE IF audio # null THEN "dub" ELSE "video"

\* video.onloadedmetadata: with a replacement blob it suspends at the decode;
\* without, createMediaElementSource (throws when ~sourceOk) and on to the start
onloadedmetadata(o, sourceOk, playOk) ==
  /\ ops[o].kind = "export" /\ ops[o].pc = "loading"
  /\ ops[o].srcLive
  /\ IF ops[o].audio # null
     THEN /\ sourceOk /\ playOk
          /\ RenderTask("onloadedmetadata", o, [ops[o] EXCEPT !.pc = "audioSetup"],
                        FALSE, << >>)
     ELSE StartRecording("onloadedmetadata", o,
                         [ops[o] EXCEPT !.route = audioSetup(ops[o].audio, sourceOk)],
                         playOk)

\* onloadedmetadata resumes after arrayBuffer / decodeAudioData (threw when ~decodeOk)
AudioDecoded(o, decodeOk, playOk) ==
  /\ ops[o].kind = "export" /\ ops[o].pc = "audioSetup"
  /\ StartRecording("AudioDecoded", o,
                    [ops[o] EXCEPT !.route = audioSetup(ops[o].audio, decodeOk)], playOk)

\* video.onerror while the source loads
VideoError(o) ==
  /\ ops[o].kind = "export" /\ ops[o].pc = "loading"
  /\ RenderTask("VideoError", o, [ops[o] EXCEPT !.pc = "halted"], FALSE,
                <<Throw(Err("Error", "Video load error"))>>)

\* the requestAnimationFrame callback
Frame(o) ==
  /\ ops[o].kind = "export" /\ ops[o].pc = "frames"
  /\ LET d == drawFrame(ops[o]) IN
     RenderTask("Frame", o, d.op, d.progress,
                IF d.reject THEN <<Throw(AbortError)>> ELSE << >>)

\* the media engine plays on; at the end of the video it sets ended and paused
VideoAdvances(o) ==
  /\ ops[o].kind = "export" /\ ~ops[o].paused /\ ~ops[o].ended
  /\ RenderTask("VideoAdvances", o,
                [ops[o] EXCEPT !.pos = @ + 1,
                               !.ended = (ops[o].pos + 1 = VideoDuration),
                               !.paused = (ops[o].pos + 1 = VideoDuration)],
                FALSE, << >>)

\* the browser pauses playback before the end
VideoPauses(o) ==
  /\ ops[o].kind = "export" /\ ~ops[o].paused /\ ~ops[o].ended
  /\ RenderTask("VideoPauses", o, [ops[o] EXCEPT !.paused = TRUE], FALSE, << >>)

\* a handler that puts the newest chunk first
pushFront(chunks, data) == IF data.size > 0 THEN <<data>> \o chunks ELSE chunks

\* if (e.data.size > 0) chunks.push(e.data)
push(chunks, data) == IF data.size > 0 THEN Append(chunks, data) ELSE chunks

\* mediaRecorder.ondataavailable, the event carrying size bytes; the events of
\* a recorder are numbered in the order of their arrival
ondataavailable(o, size) ==
  /\ ops[o].kind = "export" /\ ops[o].rec \in {"recording", "stopping"}
  /\ Len(ops[o].delivered) < MaxChunks
  /\ LET data == [n |-> Len(ops[o].delivered) + 1, size |-> size] IN
     RenderTask("ondataavailable", o,
                [ops[o] EXCEPT !.chunks = push(@, data),
                               !.delivered = Append(@, data)],
                FALSE, << >>)

\* a stop handler that releases nothing
cleanupNone(r) == r

\* video.remove(); canvas.remove(); audioCtx.close()
cleanup(r) == [r EXCEPT !.released = TRUE]

\* mediaRecorder.onstop: the blob, the cleanup, resolve(blob)
onstop(o) ==
  /\ ops[o].kind = "export" /\ ops[o].rec = "stopping"
  /\ RenderTask("onstop", o, cleanup([ops[o] EXCEPT !.rec = "inactive"]), FALSE,
                <<Ok("blob")>>)

\* ----------------------------------------------------------- specification
\* everything but the choice of another file
NextLoaded ==
  \/ handleStopProcessing
  \/ handleGenerateCaptions
  \/ \E o \in DOMAIN ops, res \in ExtractResults : GenerateExtracted(o, res)
  \/ \E o \in DOMAIN ops, resp \in TranscribeResponses, t \in 0..MaxNow :
       GenerateTranscribed(o, resp, t)
  \/ handleTranslate
  \/ \E o \in DOMAIN ops, resp \in TranslateResponses : TranslateSettled(o, resp)
  \/ handleDubbing
  \/ \E o \in DOMAIN ops, resp \in SpeechResponses : DubbingSettled(o, resp)
  \/ toggleUseDubbing
  \/ \E ctxOk \in BOOLEAN : handleExportVideo(ctxOk)
  \/ \E o \in DOMAIN ops, playOk \in BOOLEAN : onloadedmetadata(o, TRUE, playOk)
  \/ \E o \in DOMAIN ops : VideoError(o)
  \/ \E o \in DOMAIN ops : Frame(o)
  \/ \E o \in DOMAIN ops : VideoAdvances(o)
  \/ \E o \in DOMAIN ops : VideoPauses(o)
  \/ \E o \in DOMAIN ops : onstop(o)

Next ==
  \/ \E n \in 1..MaxUploads : handleFileUpload(n)
  \/ NextLoaded

Spec == Init /\ [][Next]_vars

\* ------------------------------------------------------ the caption store
\* The handlers that write captions: upload, caption generation with every
\* answer of the remote model, the malformed ones included, translation, and
\* the edits of caption texts, which address a caption by its id
NextCaptions ==
  \/ \E n \in 1..MaxUploads : handleFileUpload(n)
  \/ handleStopProcessing
  \/ handleGenerateCaptions
  \/ \E o \in DOMAIN ops, res \in ExtractResults : GenerateExtracted(o, res)
  \/ \E o \in DOMAIN ops, resp \in TranscribeResponses \cup MalformedResponses,
        t \in 0..MaxNow : GenerateTranscribed(o, resp, t)
  \/ handleTranslate
  \/ \E o \in DOMAIN ops, resp \in TranslateResponses : TranslateSettled(o, resp)
  \/ \E i \in DOMAIN captions, newText \in EditTexts :
       updateCaption(captions[i].id, newText)

SpecCaptions == Init /\ [][NextCaptions]_vars

\* ------------------------------------------------- edits beside a dub
\* upload, caption generation, dubbing, the dub checkbox and the edits of
\* caption texts
NextDub ==
  \/ \E n \in 1..MaxUploads : handleFileUpload(n)
  \/ handleStopProcessing
  \/ handleGenerateCaptions
  \/ \E o \in DOMAIN ops, res \in ExtractResults : GenerateExtracted(o, res)
  \/ \E o \in DOMAIN ops, resp \in TranscribeResponses, t \in 0..MaxNow :
       GenerateTranscribed(o, resp, t)
  \/ handleDubbing
  \/ \E o \in DOMAIN ops, resp \in SpeechResponses : DubbingSettled(o, resp)
  \/ toggleUseDubbing
  \/ \E i \in DOMAIN captions, newText \in EditTexts :
       updateCaption(captions[i].id, newText)

SpecDub == Init /\ [][NextDub]_vars

\* ------------------------------------------------------- the renderer alone
\* renderVideoWithCaptions just called by handleExportVideo on a source that
\* loads, without or with a replacement audio blob
InitRender ==
  /\ videoSrc = <<"video", 1>> /\ videoFile = <<"file", 1>>
  /\ captions = transcribeAudio([kind |-> "json",
                                 value |-> <<Raw(0, 2, "a"), Raw(2, 4, "b")>>],
                                FALSE, 0).value
  /\ status = "RENDERING" /\ errorMsg = null /\ renderingProgress = 0
  /\ \E audio \in {null, <<"blob", 0>>} :
       /\ dubbedAudioBlob = audio
       /\ dubbedAudioUrl = IF audio = null THEN null ELSE <<"dub", 0>>
       /\ useDubbing = (audio # null)
       /\ ops = <<[NewOp("export", "loading") EXCEPT !.audio = audio]>>
  /\ abortControllerRef = 1 /\ revoked = {}
  /\ last = Task("handleExportVideo", 1, ops[1], FALSE, FALSE)
  /\ lkCaptions = << >> /\ lkTime = 0
  /\ lkRenderer = << >> /\ lkPlayer = null /\ lkEditor = {} /\ lkDone = {}
  /\ NoCaptionDrawn /\ NoFile

\* the abort signal, and the events of the render with every outcome of the
\* audio setup and of play()
NextRender ==
  \/ handleStopProcessing
  \/ \E o \in DOMAIN ops, sourceOk \in BOOLEAN, playOk \in BOOLEAN :
       onloadedmetadata(o, sourceOk, playOk)
  \/ \E o \in DOMAIN ops, decodeOk \in BOOLEAN, playOk \in BOOLEAN :
       AudioDecoded(o, decodeOk, playOk)
  \/ \E o \in DOMAIN ops : VideoError(o)
  \/ \E o \in DOMAIN ops : Frame(o)
  \/ \E o \in DOMAIN ops : VideoAdvances(o)
  \/ \E o \in DOMAIN ops : VideoPauses(o)
  \/ \E o \in DOMAIN ops, size \in 0..1 : ondataavailable(o, size)
  \/ \E o \in DOMAIN ops : onstop(o)

\* Every event that is due is delivered: the metadata or the decode result
\* arrives, a scheduled frame callback runs, a playing video advances, the
\* stop event follows mediaRecorder.stop(). A load error and a pause by the
\* browser may or may not happen.
FairRender ==
  /\ WF_vars(\E o \in DOMAIN ops, sourceOk \in BOOLEAN, playOk \in BOOLEAN :
               onloadedmetadata(o, sourceOk, playOk))
  /\ WF_vars(\E o \in DOMAIN ops, decodeOk \in BOOLEAN, playOk \in BOOLEAN :
               AudioDecoded(o, decodeOk, playOk))
  /\ WF_vars(\E o \in DOMAIN ops : Frame(o))
  /\ WF_vars(\E o \in DOMAIN ops : VideoAdvances(o))
  /\ WF_vars(\E o \in DOMAIN ops : onstop(o))

SpecRender == InitRender /\ [][NextRender]_vars /\ FairRender

\* a loaded project: the file uploaded and its captions generated, nothing
\* under way, and the user keeps to this file
InitLoaded ==
  /\ videoSrc = <<"video", 1>> /\ videoFile = <<"file", 1>>
  /\ captions = transcribeAudio([kind |-> "json",
                                 value |-> <<Raw(0, 2, "a"), Raw(2, 4, "b")>>],
                                FALSE, 0).value
  /\ status = "COMPLETED" /\ errorMsg = null /\ renderingProgress = 0
  /\ dubbedAudioBlob = null /\ dubbedAudioUrl = null /\ useDubbing = FALSE
  /\ abortControllerRef = noController /\ revoked = {}
  /\ ops = << >> /\ last = Command("construct")
  /\ lkCaptions = << >> /\ lkTime = 0
  /\ lkRenderer = << >> /\ lkPlayer = null /\ lkEditor = {} /\ lkDone = {}
  /\ NoCaptionDrawn /\ NoFile

SpecLoaded == InitLoaded /\ [][NextLoaded]_vars

\* --------------------------------------------------- another file is chosen
\* the loaded application, where the user may also choose the next file
NextReupload ==
  \/ \E n \in 2..(MaxUploads + 1) : handleFileUpload(n)
  \/ NextLoaded

SpecReupload == InitLoaded /\ [][NextReupload]_vars

\* ------------------------------------------------- caption active at time t
\* Array.prototype.find with the predicate of drawFrame and handleTimeUpdate,
\* scanning from place i: << >> for undefined, <<c>> for the caption found
RECURSIVE findFrom(_, _, _)
findFrom(caps, currentTime, i) ==
  IF i > Len(caps) THEN << >>
  ELSE IF currentTime >= caps[i].start /\ currentTime <= caps[i].end THEN <<caps[i]>>
  ELSE findFrom(caps, currentTime, i + 1)

\* a lookup whose end bound is exclusive
findExclusive(caps, currentTime) ==
  LET hits == {i \in 1..Len(caps) :
                 currentTime >= caps[i].start /\ currentTime < caps[i].end}
  IN IF hits = {} THEN << >>
     ELSE <<caps[CHOOSE i \in hits : \A j \in hits : i <= j]>>

find(caps, currentTime) == findFrom(caps, currentTime, 1)

\* drawFrame: currentCaption, drawn when there is one
drawFrameCaption ==
  /\ "renderer" \notin lkDone
  /\ lkRenderer' = find(lkCaptions, lkTime)
  /\ lkDone' = lkDone \cup {"renderer"}
  /\ UNCHANGED <<appVars, lkCaptions, lkTime, lkPlayer, lkEditor, wrapVars, fileVars>>

\* VideoPlayer.handleTimeUpdate: setActiveCaption(current ? current.text : null)
handleTimeUpdate ==
  /\ "player" \notin lkDone
  /\ LET current == find(lkCaptions, lkTime) IN
     lkPlayer' = IF current # << >> THEN current[1].text ELSE null
  /\ lkDone' = lkDone \cup {"player"}
  /\ UNCHANGED <<appVars, lkCaptions, lkTime, lkRenderer, lkEditor, wrapVars, fileVars>>

\* CaptionEditor: isActive of each caption of the list
isActive(cap, currentTime) == currentTime >= cap.start /\ currentTime <= cap.end

CaptionEditorRender ==
  /\ "editor" \notin lkDone
  /\ lkEditor' = {i \in 1..Len(lkCaptions) : isActive(lkCaptions[i], lkTime)}
  /\ lkDone' = lkDone \cup {"editor"}
  /\ UNCHANGED <<appVars, lkCaptions, lkTime, lkRenderer, lkPlayer, wrapVars, fileVars>>

\* every caption sequence of at most MaxCaps captions with bounds in 0..MaxTime;
\* the caption at place i has the text <<"text", i>>
LookupCaptions ==
  UNION { [1..n -> [start : 0..MaxTime, end : 0..MaxTime]] : n \in 0..MaxCaps }

InitLookup ==
  /\ videoSrc = null /\ videoFile = null /\ captions = << >>
  /\ status = "IDLE" /\ errorMsg = null /\ renderingProgress = 0
  /\ dubbedAudioBlob = null /\ dubbedAudioUrl = null /\ useDubbing = FALSE
  /\ abortControllerRef = noController /\ revoked = {}
  /\ ops = << >> /\ last = Command("construct")
  /\ \E times \in LookupCaptions :
       lkCaptions = [i \in DOMAIN times |->
                       [id |-> <<"cap", i - 1, 0>>, start |-> times[i].start,
                        end |-> times[i].end, text |-> <<"text", i>>]]
  /\ lkTime \in 0..MaxTime
  /\ lkRenderer = << >> /\ lkPlayer = null /\ lkEditor = {} /\ lkDone = {}
  /\ NoCaptionDrawn /\ NoFile

NextLookup == drawFrameCaption \/ handleTimeUpdate \/ CaptionEditorRender

SpecLookup == InitLookup /\ [][NextLookup]_vars

\* ------------------------------------------------ drawCaptionOnCanvas: wrap
\* A word is given by its rendered width ('' has width 0), a line by the words
\* it holds; the code follows every word of a line by one ' '.
RECURSIVE Sum(_)
Sum(ws) == IF ws = << >> THEN 0 ELSE Head(ws) + Sum(Tail(ws))

\* ctx.measureText(line).width of a line built as word + ' ' + word + ' ' ...
measureText(line, space) == Sum(line) + Len(line) * space

\* the rendered width of the caption text itself: its words joined by ' '
textWidth(ws, space) == Sum(ws) + (Len(ws) - 1) * space

\* a threshold of the whole surface width
exceedsSurface(width, surface) == width > surface

\* width > maxWidth, with maxWidth = w * 0.8
exceedsMaxWidth(width, surface) == 5 * width > 4 * surface

\* a new line that loses the word that did not fit
startLineEmpty(word) == << >>

\* line = words[n] + ' '
startLine(word) == <<word>>

\* the for loop over words, at word n with the current line and the lines
\* pushed so far, then the push of the last line
RECURSIVE wrapFrom(_, _, _, _, _, _)
wrapFrom(ws, n, line, pushed, space, surface) ==
  IF n > Len(ws) THEN Append(pushed, line)
  ELSE LET testLine == Append(line, ws[n])
           testWidth == measureText(testLine, space)
       IN IF exceedsMaxWidth(testWidth, surface) /\ n > 1
          THEN wrapFrom(ws, n + 1, startLine(ws[n]), Append(pushed, line), space, surface)
          ELSE wrapFrom(ws, n + 1, testLine, pushed, space, surface)

drawCaptionOnCanvas ==
  /\ lines = << >>
  /\ lines' = wrapFrom(words, 1, << >>, << >>, spaceWidth, w)
  /\ UNCHANGED <<appVars, lkVars, words, spaceWidth, w, fileVars>>

\* every text of 1..MaxWords words
WrapTexts == UNION { [1..n -> 0..MaxWordWidth] : n \in 1..MaxWords }

InitWrap ==
  /\ videoSrc = null /\ videoFile = null /\ captions = << >>
  /\ status = "IDLE" /\ errorMsg = null /\ renderingProgress = 0
  /\ dubbedAudioBlob = null /\ dubbedAudioUrl = null /\ useDubbing = FALSE
  /\ abortControllerRef = noController /\ revoked = {}
  /\ ops = << >> /\ last = Command("construct")
  /\ lkCaptions = << >> /\ lkTime = 0
  /\ lkRenderer = << >> /\ lkPlayer = null /\ lkEditor = {} /\ lkDone = {}
  /\ words \in WrapTexts /\ spaceWidth \in 0..MaxSpaceWidth /\ w \in 1..MaxSurface
  /\ lines = << >>
  /\ NoFile

NextWrap == drawCaptionOnCanvas

SpecWrap == InitWrap /\ [][NextWrap]_vars

\* ------------------------------------------------------ handleDownloadSRT
\* In this part a caption's start and end are decimals with three places,
\* written as their count of thousandths: 1001 is the number 1.001.
SrtTimes == {0, 1001, 2000, 4000, 3723004}

\* the decimals t of SrtTimes for which the double product t * 1000 is the
\* double just below the whole number: 1.001 * 1000 = 1000.9999999999999
InexactProducts == {1001}

\* date.setMilliseconds(seconds * 1000): the product in double arithmetic,
\* of which setMilliseconds takes the integer part
setMilliseconds(t) == IF t \in InexactProducts THEN t - 1 ELSE t

\* date.toISOString().substring(11, 23).replace('.', ','): the hour of the
\* day, minute, second and millisecond of the date, as 'HH:MM:SS,mmm'
formatSRTTime(t) ==
  LET ms == setMilliseconds(t)
  IN <<(ms \div 3600000) % 24, (ms \div 60000) % 60, (ms \div 1000) % 60, ms % 1000>>

\* `${index + 1}\n${start} --> ${end}\n${cap.text}\n\n`
srtBlock(cap, index) ==
  [number |-> index + 1, start |-> formatSRTTime(cap.start),
   end |-> formatSRTTime(cap.end), text |-> cap.text]

\* the Download SRT button, disabled without captions and while processing
handleDownloadSRT ==
  /\ captions # << >> /\ ~isRendering /\ ~isProcessing
  /\ srtContent = null
  /\ srtContent' = <<[i \in 1..Len(captions) |-> srtBlock(captions[i], i - 1)]>>
  /\ UNCHANGED <<appVars, lkVars, wrapVars, wavIn, wavOut>>

\* every caption sequence of 1..MaxCaps captions with bounds in SrtTimes
SrtCaptions ==
  UNION { [1..n -> [start : SrtTimes, end : SrtTimes]] : n \in 1..MaxCaps }

InitSrt ==
  /\ videoSrc = <<"video", 1>> /\ videoFile = <<"file", 1>>
  /\ \E times \in SrtCaptions :
       captions = [i \in DOMAIN times |->
                     [id |-> capId(i - 1, 0), start |-> times[i].start,
                      end |-> times[i].end, text |-> <<"text", i>>]]
  /\ status = "COMPLETED" /\ errorMsg = null /\ renderingProgress = 0
  /\ dubbedAudioBlob = null /\ dubbedAudioUrl = null /\ useDubbing = FALSE
  /\ abortControllerRef = 1 /\ revoked = {}
  /\ ops = <<DoneOp>> /\ last = Task("GenerateTranscribed", 1, DoneOp, FALSE, FALSE)
  /\ lkCaptions = << >> /\ lkTime = 0
  /\ lkRenderer = << >> /\ lkPlayer = null /\ lkEditor = {} /\ lkDone = {}
  /\ NoCaptionDrawn /\ NoFile

NextSrt == handleDownloadSRT

SpecSrt == InitSrt /\ [][NextSrt]_vars

\* --------------------------------------------------------------- audioUtils
\* A sample is the fraction num / den. Channel data is num / SampleDen in
\* [-1, 1]; the quantization alone is given pairs of samples num / SampleDen in
\* [-2, 2] and single samples num / FineDen in [-1, 1], one for every step of
\* the 16-bit scale.
SampleDen == 2 ^ SampleBits
FineDen == 2 ^ 15

SampleRates == {24000, 44100}

\* Math.max(-1, Math.min(1, x)) of num / den, as a numerator over den
clamp(num, den) == IF num > den THEN den ELSE IF num < -den THEN -den ELSE num

\* x | 0 of the quotient a / b, b > 0: the integer part, towards zero
truncate(a, b) == IF a >= 0 THEN a \div b ELSE -((-a) \div b)

\* a scaling by half the range
scaleToInt8(num, den) == truncate(clamp(num, den) * 128, den)

\* lines 82-83: clamp, then (0.5 + sample < 0 ? sample * 32768 : sample * 32767) | 0
scaleToInt16(num, den) ==
  LET sample == clamp(num, den)
  IN IF den + 2 * sample < 0 THEN truncate(sample * 32768, den)
     ELSE truncate(sample * 32767, den)

\* view.setInt16: the low 16 bits as a signed number
setInt16(data) == ((data + 32768) % 65536) - 32768

\* the bytes of view.setUint16 / view.setUint32, little-endian or big-endian;
\* every value written is below 2^31
RECURSIVE littleEndian(_, _)
littleEndian(data, n) ==
  IF n = 0 THEN << >> ELSE <<data % 256>> \o littleEndian(data \div 256, n - 1)

RECURSIVE bigEndian(_, _)
bigEndian(data, n) ==
  IF n = 0 THEN << >> ELSE Append(bigEndian(data \div 256, n - 1), data % 256)

\* the unsigned little-endian number of n bytes at byte offset at
RECURSIVE getUint(_, _, _)
getUint(bytes, at, n) ==
  IF n = 0 THEN 0 ELSE bytes[at + 1] + 256 * getUint(bytes, at + 1, n - 1)

\* the sample of channel c at frame f of the decoded buffer b (both from 0)
getChannelData(b, c, f) ==
  ((b.seed + f + 3 * c) % (2 * SampleDen + 1)) - SampleDen

\* a chunk length that counts the length field itself
chunkLengthWithField(length, pos) == length - pos

\* setUint32(length - pos - 4): pos is the cursor, which stands behind "data"
chunkLength(length, pos) == length - pos - 4

\* bufferToWav, header: setUint16 and setUint32 write at the cursor pos and
\* advance it, so pos is the number of bytes written so far
wavHeader(b, length) ==
  LET numOfChan == b.numberOfChannels
      upToData ==
           littleEndian(1179011410, 4)                          \* "RIFF"
        \o littleEndian(length - 8, 4)
        \o littleEndian(1163280727, 4)                          \* "WAVE"
        \o littleEndian(544501094, 4)                           \* "fmt "
        \o littleEndian(16, 4)
        \o littleEndian(1, 2)
        \o littleEndian(numOfChan, 2)
        \o littleEndian(b.sampleRate, 4)
        \o littleEndian(b.sampleRate * 2 * numOfChan, 4)
        \o littleEndian(numOfChan * 2, 2)
        \o littleEndian(16, 2)
        \o littleEndian(1635017060, 4)                          \* "data"
  IN upToData \o littleEndian(chunkLength(length, Len(upToData)), 4)

\* the for loop over the channels at frame pos, writing at 44 + offset
RECURSIVE interleave(_, _, _, _, _)
interleave(b, i, pos, offset, data) ==
  IF i >= b.numberOfChannels THEN data
  ELSE interleave(b, i + 1, pos, offset + 2,
         [data EXCEPT ![(offset \div 2) + 1] =
            setInt16(scaleToInt16(getChannelData(b, i, pos), SampleDen))])

\* while (pos < abuffer.length) { for ...; pos++ }
RECURSIVE writeData(_, _, _, _)
writeData(b, pos, offset, data) ==
  IF pos < b.length
  THEN writeData(b, pos + 1, offset + 2 * b.numberOfChannels,
                 interleave(b, 0, pos, offset, data))
  ELSE data

\* bufferToWav(abuffer): the header bytes and the 16-bit values behind them.
\* The ArrayBuffer is zero-filled; the loop starts with the cursor pos where
\* the header left it and with offset 0.
bufferToWav ==
  /\ wavIn # null /\ wavIn[1].kind = "buffer" /\ wavOut = null
  /\ LET b == wavIn[1]
         length == b.length * b.numberOfChannels * 2 + 44
         header == wavHeader(b, length)
         zeros == [k \in 1..(b.length * b.numberOfChannels) |-> 0]
     IN wavOut' = <<[header |-> header, size |-> length,
                     data |-> writeData(b, Len(header), 0, zeros)]>>
  /\ UNCHANGED <<appVars, lkVars, wrapVars, srtContent, wavIn>>

\* const fileSize = 36 + dataSize
fileSize(dataSize) == 36 + dataSize

\* createWavFileFromPCM(pcmData, sampleRate): the header, written field by
\* field at fixed offsets, and the PCM bytes behind it
createWavFileFromPCM ==
  /\ wavIn # null /\ wavIn[1].kind = "pcm" /\ wavOut = null
  /\ LET numChannels == 1
         bitsPerSample == 16
         dataSize == wavIn[1].dataSize
         sampleRate == wavIn[1].sampleRate
         header ==
              bigEndian(1380533830, 4)                          \* 'RIFF'
           \o littleEndian(fileSize(dataSize), 4)
           \o bigEndian(1463899717, 4)                          \* 'WAVE'
           \o bigEndian(1718449184, 4)                          \* 'fmt '
           \o littleEndian(16, 4)
           \o littleEndian(1, 2)
           \o littleEndian(numChannels, 2)
           \o littleEndian(sampleRate, 4)
           \o littleEndian(sampleRate * numChannels * (bitsPerSample \div 8), 4)
           \o littleEndian(numChannels * (bitsPerSample \div 8), 2)
           \o littleEndian(bitsPerSample, 2)
           \o bigEndian(1684108385, 4)                          \* 'data'
           \o littleEndian(dataSize, 4)
     IN wavOut' = <<[header |-> header, size |-> Len(header) + dataSize,
                     data |-> [k \in 1..dataSize |-> 0]]>>
  /\ UNCHANGED <<appVars, lkVars, wrapVars, srtContent, wavIn>>

\* lines 82-84 for each of the samples given
writeSamples ==
  /\ wavIn # null /\ wavIn[1].kind = "samples" /\ wavOut = null
  /\ wavOut' = <<[first |-> [k \in DOMAIN wavIn[1].samples |->
                               setInt16(scaleToInt16(wavIn[1].samples[k], wavIn[1].den))],
                  again |-> << >>]>>
  /\ UNCHANGED <<appVars, lkVars, wrapVars, srtContent, wavIn>>

\* a 16-bit value read back as the sample value / fullScale, and lines 82-84
\* applied to that sample
readBack(fullScale) ==
  /\ wavIn # null /\ wavIn[1].kind = "samples"
  /\ wavOut # null /\ wavOut[1].again = << >>
  /\ wavOut' = <<[wavOut[1] EXCEPT !.again =
                    [k \in DOMAIN wavOut[1].first |->
                       <<fullScale, setInt16(scaleToInt16(wavOut[1].first[k], fullScale))>>]]>>
  /\ UNCHANGED <<appVars, lkVars, wrapVars, srtContent, wavIn>>

\* a decoded buffer, a raw PCM answer of the speech service, or samples
WavInputs ==
       [kind : {"buffer"}, numberOfChannels : 1..MaxChannels, length : 0..MaxFrames,
        sampleRate : SampleRates, seed : 0..MaxSeed]
  \cup [kind : {"pcm"}, dataSize : 0..MaxPcmBytes, sampleRate : SampleRates]
  \cup [kind : {"samples"}, den : {SampleDen},
        samples : [1..2 -> (-2 * SampleDen)..(2 * SampleDen)]]
  \cup [kind : {"samples"}, den : {FineDen}, samples : [1..1 -> (-FineDen)..FineDen]]

InitWav ==
  /\ videoSrc = null /\ videoFile = null /\ captions = << >>
  /\ status = "IDLE" /\ errorMsg = null /\ renderingProgress = 0
  /\ dubbedAudioBlob = null /\ dubbedAudioUrl = null /\ useDubbing = FALSE
  /\ abortControllerRef = noController /\ revoked = {}
  /\ ops = << >> /\ last = Command("construct")
  /\ lkCaptions = << >> /\ lkTime = 0
  /\ lkRenderer = << >> /\ lkPlayer = null /\ lkEditor = {} /\ lkDone = {}
  /\ NoCaptionDrawn
  /\ srtContent = null /\ wavOut = null
  /\ \E in \in WavInputs : wavIn = <<in>>

NextWav ==
  \/ bufferToWav
  \/ createWavFileFromPCM
  \/ writeSamples
  \/ \E fullScale \in {32767, 32768} : readBack(fullScale)

SpecWav == InitWav /\ [][NextWav]_vars

\* ------------------------------------------------------------------ claims
\* C1: once the abort signal of a render is raised, no task of that render
\* calls onProgress any more, and its promise is neither resolved with a blob
\* nor rejected with an error other than AbortError
C1_AbortedRenderRejects ==
  (last.kind = "export" /\ last.aborted) =>
    /\ ~last.progress
    /\ last.outcome \in {"pending", "cancelled"}

\* C2: at any time at most one operation is in flight with a cancellation
\* token that has not been raised
C2_OneUncancelledInFlight ==
  Cardinality({o \in DOMAIN ops : InFlight(o) /\ ~ops[o].aborted}) <= 1

\* C3: whatever a cancelled generate, translate or dub operation does after
\* its cancellation, it leaves captions, dubbedAudioBlob, dubbedAudioUrl and
\* useDubbing as they are
C3_CancelledCommitsNothing ==
  [][\A o \in DOMAIN ops :
       (/\ ops[o].kind \in {"generate", "translate", "dubbing"}
        /\ ops[o].aborted
        /\ ops'[o] # ops[o])
       => UNCHANGED <<captions, dubbedAudioBlob, dubbedAudioUrl, useDubbing>>]_vars

C3_Witness ==
  /\ last.act = "TranslateSettled" /\ last.aborted /\ last.outcome = "cancelled"
  /\ last.dub /\ dubbedAudioBlob # null /\ useDubbing

\* C4: status is IDLE right after handleStopProcessing, and the operation it
\* cancelled never ends in status ERROR with an error message
C4_CancelledNeverErrors ==
  /\ last.act = "handleStopProcessing" => status = "IDLE"
  /\ ~(last.op # 0 /\ last.aborted /\ last.outcome = "failed")

\* C5: an export that was cancelled, or whose render failed, hands no file to
\* the user and does not complete
C5_NoDownloadAfterCancel ==
  (last.kind = "export" /\ (last.aborted \/ last.outcome = "failed")) =>
    /\ ~last.download
    /\ last.outcome # "committed"

\* C6: the task in which an uncancelled operation fails leaves status ERROR
\* and a non-empty errorMsg, and status stays ERROR until the next user command
C6_ErrorUntilCommand ==
  [][/\ (last'.op # 0 /\ last'.outcome = "failed" /\ ~last'.aborted
          /\ last'.op \in DOMAIN ops /\ InFlight(last'.op))
        => (status' = "ERROR" /\ errorMsg' # null)
     /\ (status = "ERROR" /\ status' # "ERROR") => last'.act \in UserCommands]_vars

\* C7: when a caption generation commits, there is no dub any more:
\* dubbedAudioBlob and dubbedAudioUrl are null and useDubbing is false
C7_GenerateInvalidatesDub ==
  (last.act = "GenerateTranscribed" /\ last.outcome = "committed") =>
    (dubbedAudioBlob = null /\ dubbedAudioUrl = null /\ useDubbing = FALSE)

\* C8: the step in which a translation commits its captions also discards the
\* dub; a translation that fails or is cancelled leaves captions and dub alone
C8_TranslateInvalidatesDub ==
  [][\A o \in DOMAIN ops :
       (ops[o].kind = "translate" /\ ops'[o] = DoneOp) =>
         /\ last'.outcome = "committed" =>
              (dubbedAudioBlob' = null /\ dubbedAudioUrl' = null /\ useDubbing' = FALSE)
         /\ last'.outcome # "committed" =>
              UNCHANGED <<captions, dubbedAudioBlob, dubbedAudioUrl, useDubbing>>
         /\ captions' # captions => last'.outcome = "committed"]_vars

C8_Witness ==
  /\ last.act = "TranslateSettled" /\ last.outcome = "committed" /\ last.dub
  /\ dubbedAudioBlob = null /\ dubbedAudioUrl = null /\ ~useDubbing

\* C9: the lookup of the renderer and of VideoPlayer gives the first caption,
\* in sequence order, with start <= t <= end, and none when there is no such
\* caption
C9_FirstActiveCaption ==
  LET covers(i) == lkCaptions[i].start <= lkTime /\ lkTime <= lkCaptions[i].end
      first == {i \in 1..Len(lkCaptions) : covers(i) /\ \A j \in 1..(i - 1) : ~covers(j)}
  IN /\ "renderer" \in lkDone =>
          IF first = {} THEN lkRenderer = << >>
          ELSE \A i \in first : lkRenderer = <<lkCaptions[i]>>
     /\ "player" \in lkDone =>
          IF first = {} THEN lkPlayer = null
          ELSE \A i \in first : lkPlayer = lkCaptions[i].text

C9_Witness ==
  /\ {"renderer", "player"} \subseteq lkDone
  /\ Len(lkCaptions) = 2
  /\ lkCaptions[1].start < lkCaptions[1].end
  /\ lkTime = lkCaptions[1].end /\ lkTime = lkCaptions[2].start
  /\ lkRenderer = <<lkCaptions[1]>> /\ lkPlayer = lkCaptions[1].text

\* C10: the renderer, VideoPlayer and CaptionEditor each treat at most one
\* caption as active at a time t
C10_AtMostOneActive ==
  /\ "renderer" \in lkDone => Len(lkRenderer) <= 1
  /\ "player" \in lkDone =>
       lkPlayer \in {null} \cup {lkCaptions[i].text : i \in 1..Len(lkCaptions)}
  /\ "editor" \in lkDone => Cardinality(lkEditor) <= 1

\* C11: when a translation commits, the new caption sequence has the length
\* of the previous one and, at every position, the previous start and end
C11_TranslationKeepsTiming ==
  [][\A o \in DOMAIN ops :
       (ops[o].kind = "translate" /\ ops'[o] = DoneOp /\ last'.outcome = "committed")
       => /\ Len(captions') = Len(captions)
          /\ \A i \in 1..Len(captions) :
               /\ captions'[i].start = captions[i].start
               /\ captions'[i].end = captions[i].end]_vars

\* C12: a committed translation whose response has the length of the input
\* carries, at every position, the identifier of the input caption; one whose
\* response is shorter or longer carries no identifier of an input caption
C12_IdsByLength ==
  [][\A o \in DOMAIN ops :
       (ops[o].kind = "translate" /\ ops'[o] = DoneOp /\ last'.outcome = "committed")
       => LET inp == ops[o].input
              out == captions'
          IN IF Len(out) = Len(inp)
             THEN \A i \in 1..Len(out) : out[i].id = inp[i].id
             ELSE \A i \in 1..Len(out) :
                    out[i].id \notin {inp[j].id : j \in 1..Len(inp)}]_vars

\* C13: the identifiers of the captions in the store are pairwise distinct,
\* and a manual edit changes at most the one caption it addresses, and of that
\* only the text
C13_DistinctIds ==
  /\ [](\A i, j \in 1..Len(captions) : captions[i].id = captions[j].id => i = j)
  /\ [][last'.act = "updateCaption" =>
          /\ Len(captions') = Len(captions)
          /\ Cardinality({i \in 1..Len(captions) : captions'[i] # captions[i]}) <= 1
          /\ \A i \in 1..Len(captions) :
               /\ captions'[i].id = captions[i].id
               /\ captions'[i].start = captions[i].start
               /\ captions'[i].end = captions[i].end]_vars

C13_Witness ==
  /\ last.act = "updateCaption"
  /\ Len(captions) = 2
  /\ captions[1].id # captions[2].id
  /\ captions[2].id = transId(1)
  /\ captions[1].text # captions[2].text
  /\ \E i \in 1..2 : captions[i].text \in EditTexts

\* C14: a transcription response that is empty, unparseable, no array, or an
\* array whose elements lack a field makes an uncancelled generation fail:
\* the captions stay as they were and status becomes ERROR
C14_MalformedFails ==
  [][\A o \in DOMAIN ops, resp \in MalformedResponses, t \in 0..MaxNow :
       (~ops[o].aborted /\ GenerateTranscribed(o, resp, t))
       => (captions' = captions /\ status' = "ERROR")]_vars

\* C15: with every due event delivered, every call of renderVideoWithCaptions
\* eventually settles: its promise is resolved or rejected
C15_RenderSettles ==
  \A o \in 1..MaxOps :
    (o \in DOMAIN ops /\ ops[o].kind = "export" /\ ops[o].outcome = "pending")
      ~> (o \in DOMAIN ops /\ ops[o].outcome # "pending")

\* C16: a render that reached Completed or Cancelled has had its recorder
\* stopped, exactly once, and eventually has its video element, canvas and
\* audio context released
C16_ResourcesReleased ==
  /\ [](\A o \in DOMAIN ops : ops[o].stops <= 1)
  /\ []((last.kind = "export" /\ last.outcome \in {"committed", "cancelled"})
          => (last.stops = 1 /\ last.rec \in {"stopping", "inactive"}))
  /\ \A o \in 1..MaxOps :
       (last.op = o /\ last.kind = "export"
          /\ last.outcome \in {"committed", "cancelled"})
         ~> (last.op = o /\ last.released /\ last.rec = "inactive")

C16_Witness ==
  /\ last.act = "onstop" /\ last.outcome = "cancelled" /\ last.aborted
  /\ last.released /\ last.stops = 1 /\ last.rec = "inactive"

\* C17: the object URL stored in videoSrc, and the one stored in
\* dubbedAudioUrl, has not been revoked
C17_CurrentUrlsLive ==
  /\ videoSrc # null => videoSrc \notin revoked
  /\ dubbedAudioUrl # null => dubbedAudioUrl \notin revoked

\* C18: while a render records, exactly one audio path feeds the mixing
\* destination: the decoded replacement buffer when a blob was supplied, the
\* video's own audio otherwise
C18_ExactlyOneAudioPath ==
  \A o \in DOMAIN ops :
    (ops[o].kind = "export" /\ ops[o].rec = "recording")
    => ops[o].route = IF ops[o].audio # null THEN "dub" ELSE "video"

\* C18, amended: while a render records, at most one audio path feeds the
\* mixing destination and never the path of the other case; a render whose
\* audio setup succeeded starts with exactly the path of its case, one whose
\* audio setup threw starts with none
C18_AtMostOneAudioPath ==
  /\ [](\A o \in DOMAIN ops :
          (ops[o].kind = "export" /\ ops[o].rec = "recording")
          => ops[o].route \in {IF ops[o].audio # null THEN "dub" ELSE "video", "none"})
  /\ [][\A o \in DOMAIN ops, ok \in BOOLEAN, playOk \in BOOLEAN :
          (\/ AudioDecoded(o, ok, playOk)
           \/ (ops[o].audio = null /\ onloadedmetadata(o, ok, playOk)))
          => last'.route = IF ~ok THEN "none"
                           ELSE IF last'.dubbed THEN "dub" ELSE "video"]_vars

C18_Witness ==
  \E o \in DOMAIN ops :
    /\ ops[o].kind = "export" /\ ops[o].rec = "recording" /\ ~ops[o].paused
    /\ ops[o].audio # null /\ ops[o].route = "dub"

\* C19: when a replacement blob is supplied and its decode path fails, the
\* render is not rejected for it and starts recording with no audio routed,
\* the route stays as it is while the render records, and once playback has
\* ended the render, unless cancelled, resolves with an artifact
C19_DecodeFailureNotFatal ==
  /\ [][\A o \in DOMAIN ops :
          (~ops[o].aborted /\ AudioDecoded(o, FALSE, TRUE))
          => (/\ last'.rec = "recording" /\ last'.outcome = "pending"
              /\ last'.dubbed /\ last'.route = "none")]_vars
  /\ [][\A o \in DOMAIN ops :
          (ops[o].kind = "export" /\ ops[o].rec # "none" /\ ops'[o].kind = "export")
          => ops'[o].route = ops[o].route]_vars
  /\ \A o \in 1..MaxOps :
       (/\ o \in DOMAIN ops /\ ops[o].kind = "export" /\ ops[o].audio # null
        /\ ops[o].rec = "recording" /\ ops[o].route = "none"
        /\ ops[o].ended /\ ops[o].outcome = "pending")
         ~> (\/ (/\ last.op = o /\ last.outcome = "committed" /\ last.download
                 /\ last.dubbed /\ last.route = "none")
             \/ (o \in DOMAIN ops /\ ops[o].aborted))

C19_Witness ==
  /\ last.act = "onstop" /\ last.outcome = "committed" /\ last.download
  /\ ~last.aborted /\ last.dubbed /\ last.route = "none" /\ status = "COMPLETED"

\* C20: when the rendered width of the whole text exceeds 80% of the surface
\* width the wrap produces at least two lines, and no produced line is wider
\* than the threshold unless it is a single word itself wider than the threshold
C20_WrapWithinThreshold ==
  LET wide(width) == 5 * width > 4 * w IN
  lines # << >> =>
    /\ wide(textWidth(words, spaceWidth)) => Len(lines) >= 2
    /\ \A i \in 1..Len(lines) :
         wide(measureText(lines[i], spaceWidth))
         => (Len(lines[i]) = 1 /\ wide(lines[i][1]))

\* C20, amended: when the text has at least two words and its rendered width
\* exceeds 80% of the surface width the wrap produces at least two lines, and
\* no produced line of two or more words is wider than the threshold, each
\* line measured as the code measures it, every word followed by a space
C20_WrapSeveralWords ==
  LET wide(width) == 5 * width > 4 * w IN
  lines # << >> =>
    /\ (Len(words) >= 2 /\ wide(textWidth(words, spaceWidth))) => Len(lines) >= 2
    /\ \A i \in 1..Len(lines) :
         wide(measureText(lines[i], spaceWidth)) => Len(lines[i]) = 1

C20_Witness ==
  /\ Len(words) = 3 /\ 5 * textWidth(words, spaceWidth) > 4 * w
  /\ Len(lines) = 2 /\ Len(lines[1]) = 2 /\ spaceWidth > 0
  /\ \A n \in 1..3 : words[n] > 0 /\ 5 * words[n] <= 4 * w

\* C21: the subtitle export of n captions has exactly n blocks numbered 1..n in
\* sequence order, block i with the hours, minutes, seconds and milliseconds of
\* caption i's start and end and with its text; captions 0-2 and 2-4 give
\* 00:00:00,000 --> 00:00:02,000 and 00:00:02,000 --> 00:00:04,000
C21_SrtBlocks ==
  LET fields(t) == <<t \div 3600000, (t \div 60000) % 60, (t \div 1000) % 60, t % 1000>>
  IN srtContent # null =>
       LET blocks == srtContent[1] IN
       /\ Len(blocks) = Len(captions)
       /\ \A i \in 1..Len(captions) :
            /\ blocks[i].number = i
            /\ blocks[i].start = fields(captions[i].start)
            /\ blocks[i].end = fields(captions[i].end)
            /\ blocks[i].text = captions[i].text
       /\ (/\ Len(captions) = 2
           /\ <<captions[1].start, captions[1].end>> = <<0, 2000>>
           /\ <<captions[2].start, captions[2].end>> = <<2000, 4000>>)
          => /\ <<blocks[1].start, blocks[1].end>> = <<<<0, 0, 0, 0>>, <<0, 0, 2, 0>>>>
             /\ <<blocks[2].start, blocks[2].end>> = <<<<0, 0, 2, 0>>, <<0, 0, 4, 0>>>>

\* C22: every sample is clamped to [-1, 1] and quantized by round-half-up
\* scaling: the result is within -32768..32767, one scale serves every
\* negative sample, and a scaled value with fractional part of one half or
\* more is rounded up
C22_RoundHalfUp ==
  LET roundHalfUp(a, b) == (2 * a + b) \div (2 * b)
      den == wavIn[1].den
      sample(k) == clamp(wavIn[1].samples[k], den)
  IN (wavIn # null /\ wavIn[1].kind = "samples" /\ wavOut # null) =>
       /\ \A k \in DOMAIN wavIn[1].samples : wavOut[1].first[k] \in -32768..32767
       /\ \E scale \in {32767, 32768} :
            \A k \in DOMAIN wavIn[1].samples :
              wavOut[1].first[k] =
                IF sample(k) < 0 THEN roundHalfUp(sample(k) * scale, den)
                ELSE roundHalfUp(sample(k) * 32767, den)

\* C23: a sample of [-1, 1] quantized, read back as a sample and quantized
\* again is within one least-significant bit of its first quantization
C23_RoundTrip ==
  (wavIn # null /\ wavIn[1].kind = "samples" /\ wavOut # null
   /\ wavOut[1].again # << >>) =>
    \A k \in DOMAIN wavIn[1].samples :
      (wavIn[1].samples[k] \in (-wavIn[1].den)..wavIn[1].den)
      => /\ wavOut[1].again[k][2] - wavOut[1].first[k] \in {-1, 0, 1}
         /\ wavOut[1].first[k] \in -32768..32767

C23_Witness ==
  /\ wavIn # null /\ wavIn[1].kind = "samples" /\ wavOut # null
  /\ wavOut[1].again # << >>
  /\ wavIn[1].den = SampleDen
  /\ wavIn[1].samples[1] \in 1..(SampleDen - 1)
  /\ wavIn[1].samples[2] \in (1 - SampleDen)..(-1)
  /\ wavOut[1].again[1][2] = wavOut[1].first[1] - 1
  /\ wavOut[1].again[2][2] # wavOut[1].first[2]

\* C25: the 44-byte header of bufferToWav and of createWavFileFromPCM agrees
\* with the data: RIFF size = file length - 8, data-chunk size = the PCM bytes
\* behind the header (frames x channels x 2 in bufferToWav), byte rate =
\* sample rate x channels x 2, block align = channels x 2, bit depth 16
C25_HeaderConsistent ==
  (wavIn # null /\ wavIn[1].kind \in {"buffer", "pcm"} /\ wavOut # null) =>
    LET in == wavIn[1]
        header == wavOut[1].header
        channels == IF in.kind = "buffer" THEN in.numberOfChannels ELSE 1
        pcmBytes == IF in.kind = "buffer" THEN 2 * Len(wavOut[1].data)
                    ELSE Len(wavOut[1].data)
    IN /\ Len(header) = 44
       /\ wavOut[1].size = Len(header) + pcmBytes
       /\ getUint(header, 4, 4) = wavOut[1].size - 8
       /\ getUint(header, 40, 4) = pcmBytes
       /\ in.kind = "buffer" => getUint(header, 40, 4) = in.length * channels * 2
       /\ in.kind = "pcm" => getUint(header, 40, 4) = in.dataSize
       /\ getUint(header, 28, 4) = in.sampleRate * channels * 2
       /\ getUint(header, 32, 2) = channels * 2
       /\ getUint(header, 34, 2) = 16

C25_Witness ==
  /\ wavIn # null /\ wavIn[1].kind = "buffer" /\ wavOut # null
  /\ wavIn[1].numberOfChannels = 2 /\ wavIn[1].length = MaxFrames
  /\ wavIn[1].sampleRate = 44100
  /\ getUint(wavOut[1].header, 40, 4) = 4 * MaxFrames
  /\ getUint(wavOut[1].header, 28, 4) = 176400

\* C26: the data section of bufferToWav holds all L x C samples interleaved in
\* order: the value at position f x C + c is the quantization of channel c's
\* sample at frame f, for every frame from 0 to L - 1 and every channel
C26_AllFramesInterleaved ==
  (wavIn # null /\ wavIn[1].kind = "buffer" /\ wavOut # null) =>
    LET b == wavIn[1]
        C == b.numberOfChannels
    IN /\ Len(wavOut[1].data) = b.length * C
       /\ \A f \in 0..(b.length - 1), c \in 0..(C - 1) :
            wavOut[1].data[f * C + c + 1] =
              setInt16(scaleToInt16(getChannelData(b, c, f), SampleDen))

\* C24: updateCaption changes only the text of the caption whose id matches;
\* the number and order of the captions, every id, start and end, every other
\* text, the dub artifact, useDubbing and status stay as they are
C24_EditTouchesOneText ==
  [][last'.act = "updateCaption" =>
       /\ Len(captions') = Len(captions)
       /\ \E i \in 1..Len(captions) :
            /\ captions'[i] = [captions[i] EXCEPT !.text = captions'[i].text]
            /\ \A j \in 1..Len(captions) : j # i => captions'[j] = captions[j]
       /\ UNCHANGED <<dubbedAudioBlob, dubbedAudioUrl, useDubbing, status>>]_vars

C24_Witness ==
  /\ last.act = "updateCaption" /\ status = "COMPLETED"
  /\ dubbedAudioBlob # null /\ dubbedAudioUrl # null /\ useDubbing
  /\ Len(captions) = 2 /\ captions[1].text \notin EditTexts
  /\ captions[2].text \in EditTexts

\* C27: an operation in flight whose token is not raised is the one
\* abortControllerRef refers to; and when an earlier, cancelled export
\* completes, the controller, the status and the progress of an operation
\* started after it stay as they are
C27_RefIsOperationInFlight ==
  /\ [](\A o \in DOMAIN ops :
          (ops[o].outcome = "pending" /\ ~ops[o].aborted) => abortControllerRef = o)
  /\ [][\A o, p \in DOMAIN ops :
          (/\ o < p /\ ops[o].kind = "export" /\ ops[o].aborted
           /\ ops[o].outcome = "pending" /\ ops'[o].outcome # "pending"
           /\ ops[p].outcome = "pending" /\ ~ops[p].aborted)
          => UNCHANGED <<abortControllerRef, status, renderingProgress>>]_vars

\* C28: when playback has reached the end and the render is not cancelled, the
\* frame callback stops the recorder and schedules no further frame, and the
\* render resolves, once, with the non-empty chunks delivered up to its stop,
\* in the order of their arrival
C28_EndStopsAndResolves ==
  /\ [][\A o \in DOMAIN ops :
          (/\ ops[o].kind = "export" /\ ops[o].pc = "frames" /\ ops[o].ended
           /\ ~ops[o].aborted /\ last'.act = "Frame" /\ last'.op = o)
          => /\ ops'[o].rec = "stopping" /\ ops'[o].stops = ops[o].stops + 1
             /\ ops'[o].pc = "halted" /\ ~last'.progress]_vars
  /\ []((last.act = "onstop" /\ last.outcome = "committed")
          => /\ last.download
             /\ last.blob = SelectSeq(last.delivered, LAMBDA data : data.size > 0)
             /\ last.stops = 1)
  /\ \A o \in 1..MaxOps :
       (/\ o \in DOMAIN ops /\ ops[o].kind = "export" /\ ops[o].pc = "frames"
        /\ ops[o].ended /\ ops[o].outcome = "pending" /\ ~ops[o].aborted)
         ~> (\/ (last.op = o /\ last.act = "onstop" /\ last.outcome = "committed")
             \/ (o \in DOMAIN ops /\ ops[o].aborted))

C28_Witness ==
  /\ last.act = "onstop" /\ last.outcome = "committed" /\ ~last.aborted
  /\ Len(last.delivered) = MaxChunks /\ Len(last.blob) = MaxChunks
  /\ last.blob[1].n = 1

\* C29: useDubbing holds only if there is a dub artifact, dubbedAudioBlob is
\* null exactly when dubbedAudioUrl is null, and an export started with the dub
\* option set hands a replacement blob to the renderer
C29_DubStateConsistent ==
  /\ useDubbing => dubbedAudioBlob # null
  /\ dubbedAudioBlob = null <=> dubbedAudioUrl = null
  /\ (last.act = "handleExportVideo" /\ useDubbing) => last.dubbed

C29_Witness ==
  /\ last.act = "handleExportVideo" /\ status = "RENDERING"
  /\ useDubbing /\ last.dubbed /\ dubbedAudioBlob # null /\ dubbedAudioUrl # null

\* C30: starting a caption generation, a translation, a dubbing or an export
\* clears the error message (unless the operation fails in the very task that
\* starts it), so that status COMPLETED, and status IDLE after a cancel, never
\* stand beside an error message
C30_StartClearsError ==
  /\ [][last'.act \in {"handleGenerateCaptions", "handleTranslate",
                       "handleDubbing", "handleExportVideo"}
        => (errorMsg' = null \/ last'.outcome = "failed")]_vars
  /\ [](status = "COMPLETED" => errorMsg = null)
  /\ []((status = "IDLE" /\ last.act = "handleStopProcessing") => errorMsg = null)

\* C31: an upload leaves captions empty, no dub, useDubbing false, status IDLE
\* and errorMsg null; and no task of an operation that was started on an earlier
\* video changes the captions, the dub or the status
C31_UploadResetsAndIsolates ==
  /\ [][last'.act = "handleFileUpload"
        => /\ captions' = << >> /\ dubbedAudioBlob' = null /\ dubbedAudioUrl' = null
           /\ ~useDubbing' /\ status' = "IDLE" /\ errorMsg' = null]_vars
  /\ [][\A o \in DOMAIN ops :
          (/\ ops[o].kind # "done" /\ ops[o].file # videoFile
           /\ last'.op = o /\ last'.act \notin UserCommands)
          => UNCHANGED <<captions, dubbedAudioBlob, dubbedAudioUrl, useDubbing,
                         status>>]_vars

\* C32: the lines of the word wrap, read line after line, are exactly the
\* words of the text in their order, and there are at least one line and at
\* most as many lines as words
C32_WrapKeepsWords ==
  LET RECURSIVE flat(_)
      flat(ls) == IF ls = << >> THEN << >> ELSE Head(ls) \o flat(Tail(ls))
  IN lines # << >> =>
       /\ flat(lines) = words
       /\ Len(lines) >= 1 /\ Len(lines) <= Len(words)

C32_Witness ==
  /\ Len(words) = 3 /\ Len(lines) = 3
  /\ words[1] # words[2] /\ words[2] # words[3] /\ words[1] # words[3]
  /\ \A i \in 1..3 : lines[i] = <<words[i]>>

====
